---- MODULE Spec2Model ----
(***************************************************************************)
(* Hydropathy index plotter (WebApp/hydropathy_plot.py).                   *)
(*                                                                         *)
(* Strings are sequences of one-character strings.  Python's 0-based       *)
(* indices are kept in the state (positions, loop indices); sequences are  *)
(* 1-based, so s[i] in Python is s[i + 1] here.                            *)
(*                                                                         *)
(* Four specifications share the variables:                                *)
(*   Spec         one submitted request of the Streamlit script            *)
(*   SpecGen      Hydropathicity_array_gen called on arbitrary arguments   *)
(*   SpecWeights  the weight vector of Hydropathicity_value_calc, in       *)
(*                binary64 as numpy computes it                            *)
(*   SpecPreview  Preview_Sequence called on arbitrary sequences           *)
(***************************************************************************)
EXTENDS Integers, Sequences, FiniteSets, TLC

(***************************************************************************)
(* Bounds of the model.                                                    *)
(***************************************************************************)
MaxText == 5
MaxLen == 5
MaxWindow == 5
MaxHalf == 2
MaxWeightHalf == 3
MaxPreviewLen == 125

(***************************************************************************)
(* Python string and list primitives used by the program.                  *)
(***************************************************************************)
Min(a, b) == IF a < b THEN a ELSE b

Max(a, b) == IF a > b THEN a ELSE b

Whitespace == {" ", "\n", "\t", "\r"}

\* s[start:stop] with Python's clamping and negative-index wrap-around.
PySlice(s, start, stop) ==
    LET n  == Len(s)
        a0 == IF start < 0 THEN Max(start + n, 0) ELSE Min(start, n)
        b0 == IF stop < 0 THEN Max(stop + n, 0) ELSE Min(stop, n)
    IN  IF a0 >= b0 THEN << >> ELSE SubSeq(s, a0 + 1, b0)

RECURSIVE LStrip(_)
LStrip(s) ==
    IF s # << >> /\ Head(s) \in Whitespace THEN LStrip(Tail(s)) ELSE s

RECURSIVE RStrip(_)
RStrip(s) ==
    IF s # << >> /\ s[Len(s)] \in Whitespace
    THEN RStrip(SubSeq(s, 1, Len(s) - 1))
    ELSE s

\* str.strip()
Strip(s) == RStrip(LStrip(s))

\* str.startswith(prefix)
StartsWith(s, prefix) ==
    Len(s) >= Len(prefix) /\ SubSeq(s, 1, Len(prefix)) = prefix

\* str.split(sep) for a one-character separator: always at least one piece.
RECURSIVE Split(_, _)
Split(s, sep) ==
    IF \A i \in 1..Len(s) : s[i] # sep
    THEN << s >>
    ELSE LET k == CHOOSE i \in 1..Len(s) :
                      s[i] = sep /\ \A j \in 1..(i - 1) : s[j] # sep
         IN  << SubSeq(s, 1, k - 1) >> \o Split(SubSeq(s, k + 1, Len(s)), sep)

\* sep.join(pieces)
RECURSIVE Join(_, _)
Join(sep, pieces) ==
    IF pieces = << >> THEN << >>
    ELSE IF Len(pieces) = 1 THEN pieces[1]
    ELSE pieces[1] \o sep \o Join(sep, Tail(pieces))

UpperOf == [c \in {"a"} |-> "A"]

UpperChar(c) == IF c \in DOMAIN UpperOf THEN UpperOf[c] ELSE c

\* str.upper()
Upper(s) == [i \in 1..Len(s) |-> UpperChar(s[i])]

(***************************************************************************)
(* FASTA_Parser and Fetch_Sequence_NCBI return either a string or the      *)
(* integer -1.  A returned value is tagged with its Python type.           *)
(***************************************************************************)
IntVal(n) == [type |-> "int", val |-> n]

StrVal(s) == [type |-> "str", val |-> s]

IsSentinel(v) == v.type = "int" /\ v.val = -1

FASTA_Parser(FASTA_seq) ==
    IF ~StartsWith(FASTA_seq, << ">" >>)
    THEN IntVal(-1)
    ELSE LET lines == Split(FASTA_seq, "\n")
         IN  IF Len(lines) < 2
             THEN IntVal(-1)
             ELSE StrVal(Join(<< >>, Tail(lines)))

FailedText == << "F", "a", "i", "l", "e", "d" >>

\* The body of Fetch_Sequence_NCBI after the HTTP request returned `text'.
Fetch_Sequence_NCBI(text) ==
    IF StartsWith(text, FailedText) THEN IntVal(-1) ELSE StrVal(text)

(***************************************************************************)
(* Preview_Sequence.                                                       *)
(***************************************************************************)
ChunkSize == 10

LineSize == 60

PreviewGap == << " ", " ", " ", " " >>

\* PreviewPiece with the line break put after every 6th group
PreviewPiece_BreakAfter(Seq0, index) ==
    IF (index + ChunkSize) % LineSize # 0
    THEN PySlice(Seq0, index, index + ChunkSize)
    ELSE PySlice(Seq0, index, index + ChunkSize) \o << "\n" >>

\* One iteration of the loop: the element appended for `index'.
PreviewPiece(Seq0, index) ==
    IF index % LineSize # 0
    THEN PySlice(Seq0, index, index + ChunkSize)
    ELSE << "\n" >> \o PySlice(Seq0, index, index + ChunkSize)

\* The list `output' built by range(0, len(Seq), 10), from `index' on.
RECURSIVE PreviewOutput(_, _)
PreviewOutput(Seq0, index) ==
    IF index >= Len(Seq0) THEN << >>
    ELSE << PreviewPiece(Seq0, index) >> \o PreviewOutput(Seq0, index + ChunkSize)

Preview_Sequence(Seq0) == Join(PreviewGap, PreviewOutput(Seq0, 0))

(***************************************************************************)
(* Exact arithmetic.  A number is a reduced fraction [n, d] with d > 0.    *)
(* The scores are computed in this arithmetic: the program rounds every    *)
(* score to 3 decimals, which absorbs the binary64 rounding error of the   *)
(* sum and the quotient.  The weights themselves are also modelled in      *)
(* binary64 further down, where bit-exact equality is at stake.            *)
(***************************************************************************)
Abs(x) == IF x < 0 THEN -x ELSE x

RECURSIVE Gcd(_, _)
Gcd(a, b) == IF b = 0 THEN a ELSE Gcd(b, a % b)

Frac(n, d) ==
    LET s == IF d < 0 THEN -1 ELSE 1
        g == Gcd(Abs(n), Abs(d))
    IN  [n |-> (s * n) \div g, d |-> (s * d) \div g]

FInt(k) == [n |-> k, d |-> 1]

FAdd(x, y) == Frac(x.n * y.d + y.n * x.d, x.d * y.d)

FSub(x, y) == Frac(x.n * y.d - y.n * x.d, x.d * y.d)

FMul(x, y) == Frac(x.n * y.n, x.d * y.d)

FDiv(x, y) == Frac(x.n * y.d, x.d * y.n)

FLeq(x, y) == x.n * y.d <= y.n * x.d

RECURSIVE FSum(_)
FSum(xs) == IF xs = << >> THEN FInt(0) ELSE FAdd(Head(xs), FSum(Tail(xs)))

\* round(x, 3), as the integer number of thousandths; ties go to even.
Round3(x) ==
    LET t == 1000 * x.n
        q == t \div x.d
        r == t % x.d
    IN  IF 2 * r > x.d THEN q + 1
        ELSE IF 2 * r < x.d THEN q
        ELSE IF q % 2 = 0 THEN q ELSE q + 1

(***************************************************************************)
(* numpy.linspace and numpy.geomspace (endpoint = True), exact values.     *)
(***************************************************************************)
\* np.linspace(start, stop, num): y = arange(num) * (stop - start) / div
\* + start, the last element overwritten by stop.
linspace(start, stop, num) ==
    LET div   == num - 1
        delta == stop - start
    IN  [i \in 1..num |->
            IF div > 0 /\ i = num THEN FInt(stop)
            ELSE IF div > 0 THEN FAdd(FMul(FInt(i - 1), Frac(delta, div)), FInt(start))
            ELSE FInt(start)]

RECURSIVE PowCap(_, _, _)
PowCap(r, k, cap) == IF k = 0 THEN 1 ELSE Min(cap, r * PowCap(r, k - 1, cap))

\* the integer r with r^k = n, or 0 when n is not a perfect k-th power
IntRoot(n, k) ==
    IF \E r \in 1..n : PowCap(r, k, n + 1) = n
    THEN CHOOSE r \in 1..n : PowCap(r, k, n + 1) = n
    ELSE 0

\* The geometric progression from start to stop in div steps has a rational
\* ratio.  Only such arguments can be evaluated exactly.
GeomExact(start, stop, div) ==
    LET g == Gcd(start, stop)
    IN  div <= 0 \/ (IntRoot(stop \div g, div) # 0 /\ IntRoot(start \div g, div) # 0)

\* np.geomspace(start, stop, num) for start, stop > 0: 10 ** linspace(log10
\* start, log10 stop, num), the two ends overwritten by start and stop.
geomspace(start, stop, num) ==
    LET div == num - 1
        g   == Gcd(start, stop)
        p   == IntRoot(stop \div g, div)
        q   == IntRoot(start \div g, div)
    IN  [i \in 1..num |->
            IF i = 1 THEN FInt(start)
            ELSE IF i = num THEN FInt(stop)
            ELSE Frac(start * PowCap(p, i - 1, 1000000), PowCap(q, i - 1, 1000000))]

(***************************************************************************)
(* Hydropathicity_value_calc.                                              *)
(***************************************************************************)
\* The scale, in tenths.
Kyte_Doolittle_scale ==
    [G |-> -4,  A |-> 18,  V |-> 42,  L |-> 38,  I |-> 45,
     P |-> -16, C |-> 25,  M |-> 19,  S |-> -8,  T |-> -7,
     N |-> -35, Q |-> -35, F |-> 28,  Y |-> -13, W |-> -9,
     D |-> -35, E |-> -35, K |-> -39, R |-> -45, H |-> -32]

center_weight == 100

Linear == "Linear Variation"

Exponential == "Exponential Variation"

Space(Model, start, stop, num) ==
    IF Model = Linear THEN linspace(start, stop, num) ELSE geomspace(start, stop, num)

\* Weights without the [1:] that drops the repeated centre
Weights_CentreTwice(seq_len, edge_weight, Model) ==
    LET num == seq_len \div 2 + 1
    IN  Space(Model, edge_weight, center_weight, num)
            \o Space(Model, center_weight, edge_weight, num)

\* weights = np.concatenate((space(edge, center, n), space(center, edge, n)[1:]))
\* with n = seq_len // 2 + 1
Weights(seq_len, edge_weight, Model) ==
    LET num == seq_len \div 2 + 1
    IN  Space(Model, edge_weight, center_weight, num)
            \o Tail(Space(Model, center_weight, edge_weight, num))

KeyError(key) == [type |-> "KeyError", val |-> key]

FloatVal(x) == [type |-> "float", val |-> x]

\* ScaleLookup with a default score for an unknown symbol
ScaleLookup_Default(AA) ==
    IF AA \in DOMAIN Kyte_Doolittle_scale
    THEN FloatVal(Frac(Kyte_Doolittle_scale[AA], 10))
    ELSE FloatVal(FInt(0))

\* Kyte_Doolittle_scale[AA]
ScaleLookup(AA) ==
    IF AA \in DOMAIN Kyte_Doolittle_scale
    THEN FloatVal(Frac(Kyte_Doolittle_scale[AA], 10))
    ELSE KeyError(AA)

\* for index, AA in enumerate(AA_seq_segment):
\*     hydropathy_index += Kyte_Doolittle_scale[AA] * weights[index]
RECURSIVE WeightedSum(_, _, _, _)
WeightedSum(segment, weights, index, hydropathy_index) ==
    IF index >= Len(segment) THEN FloatVal(hydropathy_index)
    ELSE LET score == ScaleLookup(segment[index + 1])
         IN  IF score.type = "KeyError" THEN score
             ELSE WeightedSum(segment, weights, index + 1,
                              FAdd(hydropathy_index, FMul(score.val, weights[index + 1])))

\* hydropathy_index / np.sum(weights), or the KeyError raised by the lookup
Average(AA_seq_segment, Edge_weight, Model) ==
    LET weights == Weights(Len(AA_seq_segment), Edge_weight, Model)
        total   == WeightedSum(AA_seq_segment, weights, 0, FInt(0))
    IN  IF total.type = "KeyError" THEN total
        ELSE FloatVal(FDiv(total.val, FSum(weights)))

\* The returned value is the rounded average in thousandths, or the KeyError
\* raised by the scale lookup.
Hydropathicity_value_calc(AA_seq_segment, Edge_weight, Model) ==
    LET avg == Average(AA_seq_segment, Edge_weight, Model)
    IN  IF avg.type = "KeyError" THEN avg ELSE FloatVal(Round3(avg.val))

\* The exact average lies halfway between two thousandths.  There the
\* binary64 error of the quotient decides which way round() goes, so the
\* exact arithmetic cannot tell the result.
Tie(x) == (2000 * x.n) % x.d = 0 /\ (1000 * x.n) % x.d # 0

(***************************************************************************)
(* binary64 arithmetic on the values the weight generation works with.     *)
(* Every such value v is 0 or satisfies 2^-4 <= v < 2^8, so a float is     *)
(* kept as its exact binary expansion on the grid 2^-60: four limbs        *)
(* << a, b, c, d >> of 17 bits, v = (a*2^51 + b*2^34 + c*2^17 + d) / 2^60. *)
(* The leading bit of such a value lies in limb a, and the bits that a     *)
(* 53-bit significand cannot hold lie in limb d.                           *)
(***************************************************************************)
Limb == 131072

TopFrac == 512

Precision == 53

Zero64 == << 0, 0, 0, 0 >>

\* the float of a small non-negative integer (exact)
FromInt(k) == << k * TopFrac, 0, 0, 0 >>

\* carry (or borrow) propagation from limb d up to limb a
Norm(x) ==
    LET c3 == x[3] + x[4] \div Limb
        c2 == x[2] + c3 \div Limb
        c1 == x[1] + c2 \div Limb
    IN  << c1, c2 % Limb, c3 % Limb, x[4] % Limb >>

\* floor(log2(a)) for 1 <= a < Limb
Log2(a) == CHOOSE m \in 0..16 : 2^m <= a /\ a < 2^(m + 1)

\* Round an exact value to a 53-bit significand, to nearest, ties to even.
\* sticky tells that the exact value has non-zero bits below the grid.
\* With the leading bit at 2^m in limb a, the last `drop' bits of limb d
\* do not fit.
Round64(x, sticky) ==
    IF x = Zero64 THEN x
    ELSE LET drop == Log2(x[1]) + 68 - 16 - Precision
             unit == 2^drop
             half == unit \div 2
             low  == x[4] % unit
             odd  == (x[4] \div unit) % 2 = 1
             up   == low > half \/ (low = half /\ (sticky \/ odd))
         IN  Norm(<< x[1], x[2], x[3], (x[4] - low) + (IF up THEN unit ELSE 0) >>)

\* float(n) / float(d) for integers n >= 0, d > 0: long division
Div64(n, d) ==
    LET r0 == n % d
        r1 == (r0 * TopFrac) % d
        r2 == (r1 * Limb) % d
        r3 == (r2 * Limb) % d
        r4 == (r3 * Limb) % d
    IN  Round64(<< (n \div d) * TopFrac + (r0 * TopFrac) \div d,
                   (r1 * Limb) \div d, (r2 * Limb) \div d, (r3 * Limb) \div d >>,
                r4 # 0)

\* float(k) * x for a small integer k >= 0
Mul64(k, x) == Round64(Norm([i \in 1..4 |-> k * x[i]]), FALSE)

Add64(x, y) == Round64(Norm([i \in 1..4 |-> x[i] + y[i]]), FALSE)

\* x - y for x >= y
Sub64(x, y) == Round64(Norm([i \in 1..4 |-> x[i] - y[i]]), FALSE)

\* x <= y
Leq64(x, y) ==
    x = y \/ \E i \in 1..4 : x[i] < y[i] /\ \A j \in 1..(i - 1) : x[j] = y[j]

\* np.linspace(start, stop, num) in binary64, for integers start, stop >= 0:
\*   delta = stop - start; step = delta / div
\*   y = arange(0, num) * step      (y / div * delta when step == 0)
\*   y += start; y[-1] = stop
\* The step has the sign of delta, so y[i] + start is start - |y[i]| when
\* delta < 0; rounding to nearest is symmetric in the sign.
linspace64(start, stop, num) ==
    LET div   == num - 1
        delta == stop - start
        step  == Div64(Abs(delta), div)
    IN  [i \in 1..num |->
            IF div > 0 /\ i = num THEN FromInt(stop)
            ELSE IF div <= 0 \/ delta = 0 THEN FromInt(start)
            ELSE IF delta > 0 THEN Add64(Mul64(i - 1, step), FromInt(start))
            ELSE Sub64(FromInt(start), Mul64(i - 1, step))]

\* np.geomspace(start, stop, num).  The interior elements are 10 ** y of
\* the C library; they are given their exact values, which are integers
\* whenever GeomExact holds.
geomspace64(start, stop, num) ==
    LET exact == geomspace(start, stop, num)
    IN  [i \in 1..num |-> FromInt(exact[i].n)]

Space64(Model, start, stop, num) ==
    IF Model = Linear THEN linspace64(start, stop, num)
    ELSE geomspace64(start, stop, num)

\* weights of Hydropathicity_value_calc in binary64
Weights64(seq_len, edge_weight, Model) ==
    LET num == seq_len \div 2 + 1
    IN  Space64(Model, edge_weight, center_weight, num)
            \o Tail(Space64(Model, center_weight, edge_weight, num))

(***************************************************************************)
(* Hydropathicity_array_gen.                                               *)
(***************************************************************************)
\* np.arange(start, stop)
Arange(start, stop) ==
    IF stop <= start THEN << >> ELSE [i \in 1..(stop - start) |-> start + i - 1]

\* ArangeOf that stops one position early
ArangeOf_StopEarly(seq, W) == Arange(W \div 2, Len(seq) - W \div 2 - 1)

\* AA_range = np.arange(start=Window_size // 2, stop=len(AA_seq) - Window_size // 2)
ArangeOf(seq, W) == Arange(W \div 2, Len(seq) - W \div 2)

\* Segment without the + 1 of the slice end
Segment_NoPlusOne(seq, index, W) == PySlice(seq, index - (W \div 2), index + (W \div 2))

\* Segment of exactly Window_size symbols
Segment_ExactWindow(seq, index, W) ==
    PySlice(seq, index - (W \div 2), index - (W \div 2) + W)

\* AA_seq[index - (Window_size // 2): index + (Window_size // 2 + 1)]
Segment(seq, index, W) == PySlice(seq, index - (W \div 2), index + (W \div 2 + 1))

(***************************************************************************)
(* State.                                                                  *)
(***************************************************************************)
VARIABLES
    pc,                   \* position of the script run or of the call
    input,                \* text area of the form
    input_type,           \* radio button of the form
    computation_model,    \* select box of the form
    window_size,          \* slider of the form
    edge_weight,          \* slider of the form
    chk,                  \* script variable chk
    SEQ,                  \* script variable SEQ
    validity,             \* script variable validity
    errors,               \* messages shown with Input_box.error / Plot.error
    preview,              \* text written to Outbut_box
    chart,                \* figure given to Plot.pyplot
    exception,            \* exception that ended the script run
    AA_seq,               \* arguments of Hydropathicity_array_gen
    Window_size,
    EDGE_weight,
    model,
    AA_range,             \* locals of Hydropathicity_array_gen
    hyrdopathicity_array,
    returned,             \* value returned or exception raised by the call
    segments,             \* history: the segments passed to the calculator
    weight_computations,  \* history: evaluations of the weight vector
    gen_calls,            \* history: calls of Hydropathicity_array_gen
    calc,                 \* a call of the weight generation (SpecWeights)
    preview_call          \* a call of Preview_Sequence (SpecPreview)

appVars == << input, input_type, computation_model, window_size, edge_weight,
              chk, SEQ, validity, errors, preview, chart, exception >>

formVars == << input, input_type, computation_model, window_size, edge_weight >>

genVars == << AA_seq, Window_size, EDGE_weight, model, AA_range,
              hyrdopathicity_array, returned, segments, weight_computations,
              gen_calls >>

vars == << pc, appVars, genVars, calc, preview_call >>

Unbound == [type |-> "unbound", val |-> 0]

Models == {Linear, Exponential}

\* The exact model evaluates the exponential weights only where they are rational.
Evaluable(W, e, m) == m = Linear \/ GeomExact(e, center_weight, W \div 2)

\* No window of the call has a tied average.
Decided(seq, W, e, m) ==
    \A i \in 1..Len(ArangeOf(seq, W)) :
        LET avg == Average(Segment(seq, ArangeOf(seq, W)[i], W), e, m)
        IN  avg.type = "float" => ~Tie(avg.val)

SeqsUpTo(alphabet, n) == UNION {[1..k -> alphabet] : k \in 0..n}

(***************************************************************************)
(* Hydropathicity_array_gen as a process: the call, one loop iteration     *)
(* per step, the return.                                                   *)
(***************************************************************************)
\* lines 113-117: binding of the arguments and the statements before the loop
GenFrame(seq, W, e, m) ==
    [AA_seq |-> seq, Window_size |-> W, EDGE_weight |-> e, model |-> m,
     AA_range |-> ArangeOf(seq, W), hyrdopathicity_array |-> << >>]

\* lines 118-122: one iteration; a KeyError of the calculator leaves the call
GenStep ==
    /\ pc = "gen_loop"
    /\ Len(hyrdopathicity_array) < Len(AA_range)
    /\ LET index   == AA_range[Len(hyrdopathicity_array) + 1]
           segment == Segment(AA_seq, index, Window_size)
           value   == Hydropathicity_value_calc(segment, EDGE_weight, model)
       IN  /\ segments' = Append(segments, segment)
           /\ weight_computations' = weight_computations + 1
           /\ IF value.type = "KeyError"
              THEN /\ pc' = "gen_raised"
                   /\ returned' = value
                   /\ UNCHANGED hyrdopathicity_array
              ELSE /\ hyrdopathicity_array' = Append(hyrdopathicity_array, value.val)
                   /\ UNCHANGED << pc, returned >>
    /\ UNCHANGED << appVars, AA_seq, Window_size, EDGE_weight, model, AA_range,
                    gen_calls, calc, preview_call >>

\* line 124
GenReturn ==
    /\ pc = "gen_loop"
    /\ Len(hyrdopathicity_array) = Len(AA_range)
    /\ pc' = "gen_returned"
    /\ returned' = [type |-> "tuple", val |-> << hyrdopathicity_array, AA_range >>]
    /\ UNCHANGED << appVars, AA_seq, Window_size, EDGE_weight, model, AA_range,
                    hyrdopathicity_array, segments, weight_computations,
                    gen_calls, calc, preview_call >>

(***************************************************************************)
(* One run of the script after the Submit button was pressed.              *)
(***************************************************************************)
\* The texts typed into the form and the texts the lookup answers with.
TextAlphabet == {">", "\n", "a", " "}

Texts == SeqsUpTo(TextAlphabet, MaxText)

AccessionTexts == {<< "a" >>, << " ", "a" >>}

Responses == Texts \cup {FailedText}

InvalidFASTA == "Please, Enter a Valid FASTA Sequence"

InvalidAccession == "Please, Enter a Valid Acession ID"

InvalidAminoAcid == "Invalid Amino Acid code present"

\* lines 165-170 and 178-182: input_type == "FASTA"
SubmitFASTA ==
    /\ pc = "submit"
    /\ input_type = "FASTA"
    /\ LET parsed == FASTA_Parser(Strip(input))
       IN  /\ chk' = parsed
           /\ IF IsSentinel(parsed)
              THEN /\ errors' = errors \cup {InvalidFASTA}
                   /\ UNCHANGED << SEQ, preview >>
              ELSE /\ SEQ' = Upper(parsed.val)
                   /\ preview' = StrVal(Preview_Sequence(Upper(parsed.val)))
                   /\ UNCHANGED errors
    /\ pc' = "plot"
    /\ UNCHANGED << formVars, validity, chart, exception, genVars, calc, preview_call >>

\* lines 171-182: the lookup answers with some text; FASTA_Parser(chk).upper()
\* raises AttributeError when the parser returns -1
SubmitAccession ==
    /\ pc = "submit"
    /\ input_type = "ACCESSION ID"
    /\ \E text \in Responses :
          LET fetched == Fetch_Sequence_NCBI(text)
              parsed  == FASTA_Parser(fetched.val)
          IN  /\ chk' = fetched
              /\ IF IsSentinel(fetched)
                 THEN /\ errors' = errors \cup {InvalidAccession}
                      /\ pc' = "plot"
                      /\ UNCHANGED << SEQ, preview, exception >>
                 ELSE IF parsed.type = "int"
                 THEN /\ exception' = "AttributeError"
                      /\ pc' = "crashed"
                      /\ UNCHANGED << SEQ, preview, errors >>
                 ELSE /\ SEQ' = Upper(parsed.val)
                      /\ preview' = StrVal(Preview_Sequence(Upper(parsed.val)))
                      /\ pc' = "plot"
                      /\ UNCHANGED << errors, exception >>
    /\ UNCHANGED << formVars, validity, chart, genVars, calc, preview_call >>

\* lines 185-194: the call of Hydropathicity_array_gen, or nothing to plot
PlotEnter ==
    /\ pc = "plot"
    /\ IF IsSentinel(chk)
       THEN /\ pc' = "done"
            /\ UNCHANGED genVars
       ELSE LET frame == GenFrame(SEQ, window_size, edge_weight, computation_model)
            IN  /\ pc' = "gen_loop"
                /\ AA_seq' = frame.AA_seq
                /\ Window_size' = frame.Window_size
                /\ EDGE_weight' = frame.EDGE_weight
                /\ model' = frame.model
                /\ AA_range' = frame.AA_range
                /\ hyrdopathicity_array' = frame.hyrdopathicity_array
                /\ gen_calls' = gen_calls + 1
                /\ UNCHANGED << returned, segments, weight_computations >>
    /\ UNCHANGED << appVars, calc, preview_call >>

\* lines 191-195 and 200-246: the call returned, the figure is drawn
PlotOk ==
    /\ pc = "gen_returned"
    /\ validity' = TRUE
    /\ chart' = [type |-> "figure", x |-> returned.val[2], y |-> returned.val[1],
                 xlim |-> << 0, Len(SEQ) >>]
    /\ pc' = "done"
    /\ UNCHANGED << formVars, chk, SEQ, errors, preview, exception, genVars,
                    calc, preview_call >>

\* lines 196-198: except KeyError
PlotExcept ==
    /\ pc = "gen_raised"
    /\ validity' = FALSE
    /\ errors' = errors \cup {InvalidAminoAcid}
    /\ pc' = "done"
    /\ UNCHANGED << formVars, chk, SEQ, preview, chart, exception, genVars,
                    calc, preview_call >>

\* The form: slider(min_value=3, max_value=21, step=2), slider(1..100).
WindowMin == 3

WindowStep == 2

WindowMax == 21

EdgeMin == 1

EdgeMax == 100

FormWindows ==
    {W \in WindowMin..WindowMax :
        \E k \in 0..(MaxHalf - 1) : W = WindowMin + WindowStep * k}

FormEdges == {25, EdgeMax}

IdleGen ==
    /\ AA_seq = << >>
    /\ Window_size = 0
    /\ EDGE_weight = 0
    /\ model = ""
    /\ AA_range = << >>
    /\ hyrdopathicity_array = << >>
    /\ returned = Unbound
    /\ segments = << >>
    /\ weight_computations = 0
    /\ gen_calls = 0

IdleApp ==
    /\ input = << >>
    /\ input_type = ""
    /\ computation_model = ""
    /\ window_size = 0
    /\ edge_weight = 0
    /\ chk = Unbound
    /\ SEQ = << >>
    /\ validity = Unbound
    /\ errors = {}
    /\ preview = Unbound
    /\ chart = Unbound
    /\ exception = ""

IdleCalls ==
    /\ calc = [pc |-> "idle"]
    /\ preview_call = [pc |-> "idle"]

Init ==
    /\ pc = "submit"
    /\ \/ input_type = "FASTA" /\ input \in Texts
       \/ input_type = "ACCESSION ID" /\ input \in AccessionTexts
    /\ computation_model \in Models
    /\ window_size \in FormWindows
    /\ edge_weight \in FormEdges
    /\ Evaluable(window_size, edge_weight, computation_model)
    /\ chk = Unbound
    /\ SEQ = << >>
    /\ validity = Unbound
    /\ errors = {}
    /\ preview = Unbound
    /\ chart = Unbound
    /\ exception = ""
    /\ IdleGen
    /\ IdleCalls

Next ==
    \/ SubmitFASTA
    \/ SubmitAccession
    \/ PlotEnter
    \/ GenStep
    \/ GenReturn
    \/ PlotOk
    \/ PlotExcept

Spec == Init /\ [][Next]_vars

(***************************************************************************)
(* Hydropathicity_array_gen on arbitrary arguments.                        *)
(***************************************************************************)
GenAlphabet == {"A", "R", "X"}

GAVLI == << "G", "A", "V", "L", "I" >>

GenSeqs == SeqsUpTo(GenAlphabet, MaxLen) \cup {GAVLI}

GenEdges == {EdgeMin, 25, 50, EdgeMax}

InitGen ==
    /\ pc = "gen_loop"
    /\ \E seq \in GenSeqs, W \in 1..MaxWindow, e \in GenEdges, m \in Models :
          /\ Evaluable(W, e, m)
          /\ Decided(seq, W, e, m)
          /\ AA_seq = GenFrame(seq, W, e, m).AA_seq
          /\ Window_size = GenFrame(seq, W, e, m).Window_size
          /\ EDGE_weight = GenFrame(seq, W, e, m).EDGE_weight
          /\ model = GenFrame(seq, W, e, m).model
          /\ AA_range = GenFrame(seq, W, e, m).AA_range
          /\ hyrdopathicity_array = GenFrame(seq, W, e, m).hyrdopathicity_array
    /\ returned = Unbound
    /\ segments = << >>
    /\ weight_computations = 0
    /\ gen_calls = 1
    /\ IdleApp
    /\ IdleCalls

NextGen == GenStep \/ GenReturn

SpecGen == InitGen /\ [][NextGen]_vars

(***************************************************************************)
(* The weight vector of one call of Hydropathicity_value_calc, binary64.   *)
(***************************************************************************)
InitWeights ==
    /\ pc = "idle"
    /\ \E h \in 1..MaxWeightHalf, e \in EdgeMin..EdgeMax, m \in Models :
          /\ Evaluable(2 * h + 1, e, m)
          /\ calc = [pc |-> "call", seq_len |-> 2 * h + 1, edge_weight |-> e,
                     Model |-> m, weights |-> << >>]
    /\ preview_call = [pc |-> "idle"]
    /\ IdleApp
    /\ IdleGen

\* lines 87-91 and 100-103
CalcWeights ==
    /\ calc.pc = "call"
    /\ calc' = [calc EXCEPT !.pc = "weights",
                            !.weights = Weights64(calc.seq_len, calc.edge_weight, calc.Model)]
    /\ UNCHANGED << pc, appVars, genVars, preview_call >>

NextWeights == CalcWeights

SpecWeights == InitWeights /\ [][NextWeights]_vars

(***************************************************************************)
(* Preview_Sequence on arbitrary sequences.                                *)
(***************************************************************************)
PreviewAlphabet == << "A", "R", "N", "D", "C", "Q", " " >>

\* a sequence of n symbols that cycles through the first k symbols
Pattern(n, k) == [i \in 1..n |-> PreviewAlphabet[((i - 1) % k) + 1]]

PreviewInputs == {Pattern(n, k) : n \in 0..MaxPreviewLen, k \in {3, 7}}

InitPreview ==
    /\ pc = "idle"
    /\ \E seq \in PreviewInputs : preview_call = [pc |-> "call", Seq |-> seq, out |-> << >>]
    /\ calc = [pc |-> "idle"]
    /\ IdleApp
    /\ IdleGen

\* lines 45-52
PreviewCall ==
    /\ preview_call.pc = "call"
    /\ preview_call' = [preview_call EXCEPT !.pc = "returned",
                                            !.out = Preview_Sequence(preview_call.Seq)]
    /\ UNCHANGED << pc, appVars, genVars, calc >>

NextPreview == PreviewCall

SpecPreview == InitPreview /\ [][NextPreview]_vars

(***************************************************************************)
(* Hydropathicity_array_gen as a function: the outcome of the whole call.  *)
(***************************************************************************)
RECURSIVE GenLoop(_, _)
GenLoop(frame, array) ==
    IF Len(array) = Len(frame.AA_range)
    THEN [type |-> "tuple", val |-> << array, frame.AA_range >>]
    ELSE LET index == frame.AA_range[Len(array) + 1]
             value == Hydropathicity_value_calc(
                          Segment(frame.AA_seq, index, frame.Window_size),
                          frame.EDGE_weight, frame.model)
         IN  IF value.type = "KeyError" THEN value
             ELSE GenLoop(frame, Append(array, value.val))

Hydropathicity_array_gen(seq, W, e, m) == GenLoop(GenFrame(seq, W, e, m), << >>)

(***************************************************************************)
(* Properties.                                                             *)
(***************************************************************************)
Half == Window_size \div 2

Known(segment) == \A i \in 1..Len(segment) : segment[i] \in DOMAIN Kyte_Doolittle_scale

\* C1: the positions of a returned profile are exactly the consecutive
\* integers W//2 .. L - W//2 - 1, so the profile has L - 2*(W//2) entries
\* when that is positive and none otherwise; a sequence shorter than the
\* window gives an empty profile and never an error.
C1_Positions ==
    LET L == Len(AA_seq)
        n == Max(0, L - 2 * Half)
    IN  /\ pc = "gen_returned" =>
              /\ returned.val[2] = [i \in 1..n |-> Half + i - 1]
              /\ Len(returned.val[1]) = n
        /\ L < Window_size =>
              /\ pc # "gen_raised"
              /\ pc = "gen_returned" => returned.val = << << >>, << >> >>

C1_Witness ==
    /\ pc = "gen_returned"
    /\ Len(AA_seq) = 5
    /\ Window_size = 3
    /\ returned.val[2] = << 1, 2, 3 >>

\* C2: for an odd window size W >= 3, values and positions of a returned
\* profile have the same length and values[i] is the score of the segment
\* sequence[p - W//2 : p + W//2 + 1], p = positions[i], which lies inside
\* the sequence and has exactly W symbols.
C2_ValuesMatchSegments ==
    (pc = "gen_returned" /\ Window_size % 2 = 1 /\ Window_size >= 3) =>
        LET values    == returned.val[1]
            positions == returned.val[2]
        IN  /\ Len(values) = Len(positions)
            /\ Len(segments) = Len(positions)
            /\ \A i \in 1..Len(positions) :
                  LET p   == positions[i]
                      seg == [j \in 1..Window_size |-> AA_seq[p - Half + j]]
                  IN  /\ p - Half >= 0
                      /\ p + Half + 1 <= Len(AA_seq)
                      /\ segments[i] = seg
                      /\ values[i] = Round3(Average(seg, EDGE_weight, model).val)

C2_Witness ==
    /\ pc = "gen_returned"
    /\ Window_size = 3
    /\ Len(AA_seq) = 5
    /\ Len(returned.val[1]) = 3
    /\ EDGE_weight = 25

\* the plain arithmetic mean of the scale scores of a segment
RECURSIVE ScaleSum(_)
ScaleSum(segment) ==
    IF segment = << >> THEN 0
    ELSE Kyte_Doolittle_scale[Head(segment)] + ScaleSum(Tail(segment))

Mean(segment) == Frac(ScaleSum(segment), 10 * Len(segment))

\* the weight at 1-based offset j of a window of n symbols, read off the
\* rising half on both sides of the centre
Mirrored(n, e, m, j) == Space(m, e, center_weight, n \div 2 + 1)[Min(j, n + 1 - j)]

RECURSIVE MirroredSum(_, _, _, _, _)
MirroredSum(segment, e, m, j, withScore) ==
    IF j > Len(segment) THEN FInt(0)
    ELSE FAdd(FMul(IF withScore
                   THEN Frac(Kyte_Doolittle_scale[segment[j]], 10)
                   ELSE FInt(1),
                   Mirrored(Len(segment), e, m, j)),
              MirroredSum(segment, e, m, j + 1, withScore))

\* C3: every value of a returned profile is sum(scale[s[i]] * weights[i])
\* / sum(weights) rounded to 3 decimals; with edge weight 100 that is the
\* plain mean of the scale scores under both models, and "GAVLI" with
\* window size 3 gives positions [1, 2, 3] and 1.867 at position 1.
C3_WeightedAverage ==
    pc = "gen_returned" =>
        LET values == returned.val[1]
        IN  /\ \A i \in 1..Len(values) :
                  /\ Known(segments[i])
                  /\ values[i] =
                        Round3(FDiv(MirroredSum(segments[i], EDGE_weight, model, 1, TRUE),
                                    MirroredSum(segments[i], EDGE_weight, model, 1, FALSE)))
                  /\ EDGE_weight = EdgeMax => values[i] = Round3(Mean(segments[i]))
            /\ (AA_seq = GAVLI /\ Window_size = 3 /\ EDGE_weight = EdgeMax) =>
                  /\ returned.val[2] = << 1, 2, 3 >>
                  /\ values[1] = 1867

C3_Witness ==
    /\ pc = "gen_returned"
    /\ AA_seq = GAVLI
    /\ Window_size = 3
    /\ EDGE_weight = EdgeMax
    /\ returned.val[1][1] = 1867

\* C4: for an odd window size W >= 3, an edge weight > 0 and both models,
\* the weight vector has exactly W entries, is symmetric (weights[i] =
\* weights[W-1-i]), has the edge weight at both ends and its maximum, the
\* centre weight 100, at the middle index W//2.
C4_SymmetricWeights ==
    calc.pc = "weights" =>
        LET W == calc.seq_len
            w == calc.weights
        IN  /\ Len(w) = W
            /\ \A i \in 1..W : w[i] = w[W + 1 - i]
            /\ w[1] = FromInt(calc.edge_weight)
            /\ w[W] = FromInt(calc.edge_weight)
            /\ w[W \div 2 + 1] = FromInt(center_weight)
            /\ \A i \in 1..W : Leq64(w[i], w[W \div 2 + 1])

\* some scored window of the request holds a symbol outside the scale
UnknownInWindow ==
    \E p \in 0..(Len(SEQ) - 1) :
        /\ p >= window_size \div 2
        /\ p < Len(SEQ) - window_size \div 2
        /\ \E j \in (p - window_size \div 2)..(p + window_size \div 2) :
              SEQ[j + 1] \notin DOMAIN Kyte_Doolittle_scale

IngestionFailed ==
    /\ chk # Unbound
    /\ \/ IsSentinel(chk)
       \/ input_type = "ACCESSION ID" /\ FASTA_Parser(chk.val).type = "int"

\* C6: on both input paths an ingestion failure (text not in FASTA form,
\* a looked-up record that cannot be parsed, an unresolvable accession) is
\* reported as an error message and Hydropathicity_array_gen is not
\* called for that request.
C6_IngestionFailureReported ==
    IngestionFailed =>
        /\ gen_calls = 0
        /\ errors \cap {InvalidFASTA, InvalidAccession} # {}

\* C7: the preview is the sequence in consecutive groups of 10 symbols
\* (the last may be shorter), adjacent groups separated by 4 spaces, a
\* line break right before every 6th group (groups 0, 6, 12, ...); the
\* groups in order are exactly the input.
C7_PreviewLayout ==
    preview_call.pc = "returned" =>
        LET S        == preview_call.Seq
            out      == preview_call.out
            L        == Len(S)
            G        == (L + 9) \div 10
            start(g) == 14 * g + g \div 6 + 2
            len(g)   == Min(10, L - 10 * g)
        IN  /\ Len(out) = IF L = 0 THEN 0 ELSE L + 4 * (G - 1) + (G - 1) \div 6 + 1
            /\ \A g \in 0..(G - 1) :
                  /\ \A k \in 1..len(g) : out[start(g) + k - 1] = S[10 * g + k]
                  /\ g % 6 = 0 => out[start(g) - 1] = "\n"
                  /\ g >= 1 => \A k \in 0..3 : out[start(g - 1) + 10 + k] = " "

C7_Witness ==
    /\ preview_call.pc = "returned"
    /\ Len(preview_call.Seq) = 125
    /\ preview_call.out[86] = "\n"

UppercaseLetters ==
    {"A", "B", "C", "D", "E", "F", "G", "H", "I", "J", "K", "L", "M",
     "N", "O", "P", "Q", "R", "S", "T", "U", "V", "W", "X", "Y", "Z"}

\* C8: whenever ingestion succeeds, the sequence handed to the profile
\* computation is a non-empty string of uppercase symbols: no whitespace,
\* no header text, no line break.
C8_CleanSequence ==
    gen_calls > 0 =>
        /\ AA_seq # << >>
        /\ \A i \in 1..Len(AA_seq) : AA_seq[i] \in UppercaseLetters

\* C9: one call of Hydropathicity_array_gen computes the weight vector a
\* single time, however many positions it scores.
C9_WeightsComputedOnce ==
    (pc = "gen_returned" /\ Len(AA_range) >= 1) => weight_computations = 1

\* C10: an even window size W is never rejected: every scored segment has
\* W + 1 symbols and the call ends exactly as the call with window size
\* W + 1 does, with the same positions and values or the same error.
C10_EvenAsNextOdd ==
    Window_size % 2 = 0 =>
        /\ \A i \in 1..Len(segments) : Len(segments[i]) = Window_size + 1
        /\ pc \in {"gen_returned", "gen_raised"} =>
              returned = Hydropathicity_array_gen(AA_seq, Window_size + 1, EDGE_weight, model)

C10_Witness ==
    /\ pc = "gen_returned"
    /\ Window_size = 4
    /\ Len(AA_seq) = 5
    /\ Len(returned.val[1]) = 1
    /\ Len(segments[1]) = 5

====
